---- MODULE Spec2Model ----
(***************************************************************************)
(* Model of movie-recommender's main.py: the ranking function `recommend`, *)
(* the concurrent metadata fetch (`getMovieData` under `getAllMovies`) and *)
(* the card rendering (`handle_card_data`, `card`) as `main` chains them.  *)
(*                                                                         *)
(* Conventions.  Python strings are sequences of one-character strings,    *)
(* so that `in` (substring) and float() are computed, not assumed.  Python *)
(* None standing where a string may stand is the one-element sequence      *)
(* <<"None">> (no character is four letters long).  An optional dict (the  *)
(* value a fetch returns) is a sequence of length at most one: None is     *)
(* <<>>.  Rows are numbered from 1 where pandas numbers them from 0.       *)
(* Similarity scores are integers; only their order matters to the code.   *)
(***************************************************************************)
EXTENDS Integers, Sequences, FiniteSets, TLC

\* ------------------------------------------------------------- bounds
MaxRows == 4
MaxLength == 3
MaxScore == 1

\* ------------------------------------------------------------ strings
NoneStr == <<"None">>
NA == <<"N", "/", "A">>

\* Python's `a in b` on two strings.
IsSubstring(a, b) ==
  \E k \in 0..(Len(b) - Len(a)) : SubSeq(b, k + 1, k + Len(a)) = a

Min(S) == CHOOSE x \in S : \A y \in S : x <= y

\* ------------------------------------------------------------ inputs
Alpha == <<"A">>
Alpha2 == <<"A", "2">>
Beta == <<"B">>
Gamma == <<"G">>

\* Titles the ranking specification draws catalogs from: Alpha is a
\* substring of Alpha2, Beta of neither.
Titles == {Alpha, Alpha2, Beta}
Scores == 0..MaxScore

Catalogs == UNION {[1..n -> Titles] : n \in 1..MaxRows}

\* recommend reads one row of the matrix, similarity[index]; matrices whose
\* rows are all the same vector give that row every possible content.
Matrices(n) == {[i \in 1..n |-> r] : r \in [1..n -> Scores]}

\* The catalog and row of the documented example, and a catalog in which two
\* rows carry the same title.
ExampleCatalog == <<Alpha, Beta, Alpha2, Gamma>>
RepeatCatalog == <<Beta, Alpha, Beta, Gamma>>
ExampleSimilarity ==
  << <<100, 90, 95, 20>>,
     <<90, 100, 85, 30>>,
     <<95, 85, 100, 25>>,
     <<20, 30, 25, 100>> >>
RepeatSimilarity ==
  << <<100, 40, 100, 30>>,
     <<40, 100, 40, 60>>,
     <<100, 40, 100, 30>>,
     <<30, 60, 30, 100>> >>
MainInputs ==
  { [df |-> ExampleCatalog, sim |-> ExampleSimilarity],
    [df |-> RepeatCatalog, sim |-> RepeatSimilarity] }

VARIABLES
  new_movies_df,     \* the catalog: a sequence of titles
  similarity,        \* the similarity matrix
  movie,             \* the chosen title
  length,            \* the number of recommendations asked for
  pc,                \* where main is
  error,             \* the exception main ended with, "" if none
  index,             \* recommend's local: the row of the chosen title, 0 unset
  distances,         \* recommend's local: the sorted (row, score) pairs
  recommendations,   \* recommend's result: titles
  rec_rows,          \* the row each recommended title was read from
  session,           \* the ClientSession: "none", "open", "closed"
  sessions_opened,   \* how many ClientSessions were created
  session_misused,   \* a fetch touched the session while it was not open
  tasks,             \* the getMovieData tasks gather runs, by position
  completion,        \* the positions in the order their tasks finished
  ret,               \* getAllMovies' local: what gather gave
  result,            \* what getAllMovies returned to main
  cards              \* the cards main joined

vars ==
  << new_movies_df, similarity, movie, length, pc, error, index, distances,
     recommendations, rec_rows, session, sessions_opened, session_misused,
     tasks, completion, ret, result, cards >>

rankVars == << index, distances, recommendations, rec_rows >>
fetchVars ==
  << session, sessions_opened, session_misused, tasks, completion, ret,
     result >>
inputVars == << new_movies_df, similarity, movie, length >>

\* ------------------------------------------------------------ recommend

\* new_movies_df[new_movies_df["title"] == movie].index
matching_rows(df, m) == {i \in 1..Len(df) : df[i] = m}

\* A variant that falls back to the first row instead of raising.
index0_default(rows) ==
  [raised |-> FALSE, value |-> IF rows = {} THEN 1 ELSE Min(rows)]
\* .index[0]: the first matching row; IndexError on an empty index.
index0(rows) ==
  IF rows = {} THEN [raised |-> TRUE, value |-> 0]
  ELSE [raised |-> FALSE, value |-> Min(rows)]

\* list(enumerate(similarity[index]))
enumerate(row) == [i \in 1..Len(row) |-> <<i, row[i]>>]

\* One step of a stable descending sort: x goes behind every element whose
\* key is at least its own.
insert_desc(x, s) ==
  LET p == Cardinality({j \in 1..Len(s) : s[j][2] >= x[2]})
  IN SubSeq(s, 1, p) \o <<x>> \o SubSeq(s, p + 1, Len(s))

RECURSIVE sorted_reverse(_)
\* sorted(l, reverse=True, key=lambda x: x[1]): descending by score, equal
\* scores in their original order.
sorted_reverse(l) ==
  IF l = <<>> THEN <<>>
  ELSE insert_desc(l[Len(l)], sorted_reverse(SubSeq(l, 1, Len(l) - 1)))

\* A variant that skips only the query title itself.
skipped_exact(m, title) == title = m
\* The test of line 33 that skips a candidate.
skipped(m, title) == IsSubstring(m, title)

RECURSIVE kept_rows(_, _, _)
\* The loop of lines 32-35 over ds, as the rows whose titles it appends.
kept_rows(df, m, ds) ==
  IF ds = <<>> THEN <<>>
  ELSE LET rest == kept_rows(df, m, Tail(ds))
       IN IF skipped(m, df[Head(ds)[1]]) THEN rest
          ELSE <<Head(ds)[1]>> \o rest

\* recommendations[:length] for length >= 0
slice_to(s, n) == SubSeq(s, 1, IF n < Len(s) THEN n ELSE Len(s))

\* recommend(movie, length), called at line 209.
Recommend ==
  /\ pc = "recommend"
  /\ LET found == index0(matching_rows(new_movies_df, movie))
     IN IF found.raised
        THEN /\ pc' = "raised"
             /\ error' = "IndexError"
             /\ UNCHANGED rankVars
        ELSE LET ds == sorted_reverse(enumerate(similarity[found.value]))
                 rows == slice_to(kept_rows(new_movies_df, movie, Tail(ds)), length)
             IN /\ index' = found.value
                /\ distances' = ds
                /\ rec_rows' = rows
                /\ recommendations' = [k \in 1..Len(rows) |-> new_movies_df[rows[k]]]
                /\ pc' = "getAllMovies"
                /\ error' = ""
  /\ UNCHANGED << inputVars, fetchVars, cards >>

\* ------------------------------------------------------- initial states
InitLocals ==
  /\ pc = "recommend"
  /\ error = ""
  /\ index = 0
  /\ distances = <<>>
  /\ recommendations = <<>>
  /\ rec_rows = <<>>
  /\ session = "none"
  /\ sessions_opened = 0
  /\ session_misused = FALSE
  /\ tasks = <<>>
  /\ completion = <<>>
  /\ ret = <<>>
  /\ result = <<>>
  /\ cards = <<>>

\* recommend as a function: any catalog, any row of scores, any title, any
\* positive count.
InitRec ==
  /\ new_movies_df \in Catalogs
  /\ similarity \in Matrices(Len(new_movies_df))
  /\ movie \in Titles
  /\ length \in 1..MaxLength
  /\ InitLocals

NextRec == Recommend

SpecRec == InitRec /\ [][NextRec]_vars

\* --------------------------------------------------------- the provider
None == <<>>

Rating79 == <<"7", ".", "9">>
Rating5 == <<"5">>
RatingBad == <<"x", ".", "9">>
PosterUrl == <<"p">>
ImdbId == <<"t", "t", "1">>
FallbackImage == <<"f", "b">>
StrTrue == <<"T", "r", "u", "e">>
StrFalse == <<"F", "a", "l", "s", "e">>

\* A reply as the dict response.json() builds; a key the reply lacks holds
\* NoneStr, which is what data.get(key) gives for it.
FullReply(name) ==
  [Response |-> StrTrue, Title |-> name, Poster |-> PosterUrl,
   imdbRating |-> Rating79, imdbID |-> ImdbId]
SentinelReply(name) ==
  [Response |-> StrTrue, Title |-> name, Poster |-> NA,
   imdbRating |-> NA, imdbID |-> NA]
BareReply(name) ==
  [Response |-> StrTrue, Title |-> name, Poster |-> NoneStr,
   imdbRating |-> Rating5, imdbID |-> NoneStr]
BadRatingReply(name) ==
  [Response |-> StrTrue, Title |-> name, Poster |-> PosterUrl,
   imdbRating |-> RatingBad, imdbID |-> ImdbId]
\* {"Response": "False", "Error": "Movie not found!"}
NotFoundReply ==
  [Response |-> StrFalse, Title |-> NoneStr, Poster |-> NoneStr,
   imdbRating |-> NoneStr, imdbID |-> NoneStr]

\* What the provider may answer to the request for `name`: a status, a
\* content type and the body as parsed JSON (None when it is not JSON).
Responses(name) ==
  { [status |-> "200", ctype |-> "json", json |-> <<FullReply(name)>>],
    [status |-> "200", ctype |-> "json", json |-> <<SentinelReply(name)>>],
    [status |-> "200", ctype |-> "json", json |-> <<BareReply(name)>>],
    [status |-> "200", ctype |-> "json", json |-> <<BadRatingReply(name)>>],
    [status |-> "200", ctype |-> "json", json |-> <<NotFoundReply>>],
    [status |-> "401", ctype |-> "json", json |-> <<NotFoundReply>>],
    [status |-> "200", ctype |-> "json", json |-> None],
    [status |-> "503", ctype |-> "html", json |-> None] }

\* What session.get may raise instead of answering.
NetworkErrors == {"ClientConnectorError", "TimeoutError"}

\* How awaiting session.get(url) for `name` may end: with a response, or
\* with an exception.
Outcomes(name) ==
  {[raised |-> "", resp |-> <<r>>] : r \in Responses(name)} \cup
  {[raised |-> e, resp |-> <<>>] : e \in NetworkErrors}

\* The classes `except Exception` catches, of those a fetch can raise.
ExceptionSubclasses ==
  NetworkErrors \cup
    {"ContentTypeError", "JSONDecodeError", "RuntimeError",
     "ClientConnectionError"}

\* ---------------------------------------------------------- getMovieData
NewTask == [st |-> "created", resp |-> <<>>, value |-> None, exc |-> ""]

\* response.json(): the dict, or the exception it raises.
response_json(r) ==
  IF r.ctype # "json" THEN [raised |-> "ContentTypeError", value |-> None]
  ELSE IF r.json = None THEN [raised |-> "JSONDecodeError", value |-> None]
  ELSE [raised |-> "", value |-> r.json]

\* A task in which exception e was raised inside the try block: without the
\* handler it leaves the coroutine.
propagate(t, e) == [t EXCEPT !.st = "raised", !.exc = e]
\* Lines 59-60: an Exception is caught and printed, and the coroutine falls
\* off its end, returning None.
except_Exception(t, e) ==
  IF e \in ExceptionSubclasses
  THEN [t EXCEPT !.st = "done", !.value = None, !.exc = e]
  ELSE [t EXCEPT !.st = "raised", !.exc = e]

\* A variant that turns a reply saying Response False into None.
return_resp_checked(t, resp) ==
  IF resp[1].Response = StrFalse THEN [t EXCEPT !.st = "done", !.value = None]
  ELSE [t EXCEPT !.st = "done", !.value = resp]
\* Line 57: return resp.
return_resp(t, resp) == [t EXCEPT !.st = "done", !.value = resp]

Finish(i, t) ==
  /\ tasks' = [tasks EXCEPT ![i] = t]
  /\ completion' = Append(completion, i)

\* Line 53: the task starts and calls session.get, which refuses a closed
\* session with RuntimeError.
TaskRequest(i) ==
  /\ tasks[i].st = "created"
  /\ IF session = "open"
     THEN /\ tasks' = [tasks EXCEPT ![i].st = "requesting"]
          /\ UNCHANGED << completion, session_misused >>
     ELSE /\ Finish(i, except_Exception(tasks[i], "RuntimeError"))
          /\ session_misused' = TRUE
  /\ UNCHANGED << inputVars, rankVars, pc, error, session, sessions_opened,
                  ret, result, cards >>

\* Lines 53-55: the request is answered, or fails.
TaskResponse(i) ==
  /\ tasks[i].st = "requesting"
  /\ IF session = "open"
     THEN /\ \E o \in Outcomes(recommendations[i]) :
               IF o.raised # ""
               THEN Finish(i, except_Exception(tasks[i], o.raised))
               ELSE /\ tasks' = [tasks EXCEPT ![i].st = "reading",
                                              ![i].resp = o.resp]
                    /\ UNCHANGED completion
          /\ UNCHANGED session_misused
     ELSE /\ Finish(i, except_Exception(tasks[i], "ClientConnectionError"))
          /\ session_misused' = TRUE
  /\ UNCHANGED << inputVars, rankVars, pc, error, session, sessions_opened,
                  ret, result, cards >>

\* Lines 56-57: the body is read and parsed, and returned.
TaskJson(i) ==
  /\ tasks[i].st = "reading"
  /\ IF session = "open"
     THEN /\ LET parsed == response_json(tasks[i].resp[1])
             IN IF parsed.raised # ""
                THEN Finish(i, except_Exception(tasks[i], parsed.raised))
                ELSE Finish(i, return_resp(tasks[i], parsed.value))
          /\ UNCHANGED session_misused
     ELSE /\ Finish(i, except_Exception(tasks[i], "ClientConnectionError"))
          /\ session_misused' = TRUE
  /\ UNCHANGED << inputVars, rankVars, pc, error, session, sessions_opened,
                  ret, result, cards >>

\* ---------------------------------------------------------- getAllMovies

\* Line 64: async with aiohttp.ClientSession() as session
EnterSession ==
  /\ pc = "getAllMovies"
  /\ session' = "open"
  /\ sessions_opened' = sessions_opened + 1
  /\ pc' = "gather"
  /\ UNCHANGED << inputVars, rankVars, error, session_misused, tasks,
                  completion, ret, result, cards >>

\* Line 65: one coroutine per name, in order, all handed to gather.
Gather ==
  /\ pc = "gather"
  /\ tasks' = [i \in 1..Len(recommendations) |-> NewTask]
  /\ pc' = "awaiting"
  /\ UNCHANGED << inputVars, rankVars, error, session, sessions_opened,
                  session_misused, completion, ret, result, cards >>

Settled(t) == t.st \in {"done", "raised"}
Raised(ts) == {i \in 1..Len(ts) : ts[i].st = "raised"}

\* A variant that wakes the awaiter at the first child that is done.
gather_first_completed(ts) == ts = <<>> \/ \E i \in 1..Len(ts) : Settled(ts[i])
\* gather wakes its awaiter once every child is done, or as soon as one child
\* has raised (return_exceptions is False).
gather_ready(ts) ==
  IF Raised(ts) # {} THEN TRUE ELSE \A i \in 1..Len(ts) : Settled(ts[i])

\* A variant that lists the results in the order the children finished.
gather_as_completed(ts, order) == [k \in 1..Len(order) |-> ts[order[k]].value]
\* gather's result list: the children's results in the order the children
\* were passed.
gather_results(ts, order) == [i \in 1..Len(ts) |-> ts[i].value]

\* Lines 65-67: gather hands over the results, or the first exception.
GatherReturn ==
  /\ pc = "awaiting"
  /\ gather_ready(tasks)
  /\ IF Raised(tasks) # {}
     THEN /\ error' =
               tasks[completion[Min({k \in 1..Len(completion) :
                                       completion[k] \in Raised(tasks)})]].exc
          /\ pc' = "exit_raising"
          /\ UNCHANGED ret
     ELSE /\ ret' = gather_results(tasks, completion)
          /\ pc' = "exit_returning"
          /\ UNCHANGED error
  /\ UNCHANGED << inputVars, rankVars, session, sessions_opened,
                  session_misused, tasks, completion, result, cards >>

\* Line 64 again: leaving the async with block closes the session, on a
\* return and on an exception alike; line 210 then has the result.
ExitSession ==
  /\ pc \in {"exit_returning", "exit_raising"}
  /\ session' = "closed"
  /\ IF pc = "exit_returning"
     THEN /\ result' = ret
          /\ pc' = "render"
     ELSE /\ pc' = "raised"
          /\ UNCHANGED result
  /\ UNCHANGED << inputVars, rankVars, error, sessions_opened,
                  session_misused, tasks, completion, ret, cards >>

\* ------------------------------------------------------ the cards
Digits == {"0", "1", "2", "3", "4", "5", "6", "7", "8", "9"}
DigitVal(c) ==
  CASE c = "0" -> 0 [] c = "1" -> 1 [] c = "2" -> 2 [] c = "3" -> 3
    [] c = "4" -> 4 [] c = "5" -> 5 [] c = "6" -> 6 [] c = "7" -> 7
    [] c = "8" -> 8 [] c = "9" -> 9

RECURSIVE digits_value(_)
digits_value(s) ==
  IF s = <<>> THEN 0
  ELSE 10 * digits_value(SubSeq(s, 1, Len(s) - 1)) + DigitVal(s[Len(s)])

RECURSIVE pow10(_)
pow10(n) == IF n = 0 THEN 1 ELSE 10 * pow10(n - 1)

AllDigits(s) == \A k \in 1..Len(s) : s[k] \in Digits

\* float(s) for the decimal literals digits, digits.digits, digits. and
\* .digits: the value as num/den; any other string here raises ValueError.
float(s) ==
  LET dots == {k \in 1..Len(s) : s[k] = "."}
  IN IF dots = {} /\ Len(s) > 0 /\ AllDigits(s)
     THEN [raised |-> FALSE, num |-> digits_value(s), den |-> 1]
     ELSE IF Cardinality(dots) = 1 /\ Len(s) > 1
             /\ AllDigits(SubSeq(s, 1, Min(dots) - 1))
             /\ AllDigits(SubSeq(s, Min(dots) + 1, Len(s)))
     THEN LET d == Min(dots)
              frac == SubSeq(s, d + 1, Len(s))
          IN [raised |-> FALSE,
              num |-> digits_value(SubSeq(s, 1, d - 1)) * pow10(Len(frac))
                        + digits_value(frac),
              den |-> pow10(Len(frac))]
     ELSE [raised |-> TRUE, num |-> 0, den |-> 1]

\* Lines 143-161: the card, as the values its HTML is built from.
card(imdb_id, name, image, rating) ==
  [url |-> IF imdb_id # NoneStr THEN <<"title">> \o imdb_id ELSE <<"home">>,
   name |-> name,
   image |-> image,
   rating |-> rating,
   color |-> IF rating.num * 10 > 75 * rating.den THEN "green"
             ELSE IF rating.num * 10 > 55 * rating.den THEN "orange"
             ELSE "red"]

empty_values == {NA, NoneStr}

\* Lines 176-189, the branch for data that is not None: the HTML as a
\* sequence of cards, or the ValueError float() raised.  The int 0 that line
\* 182 puts for an empty rating is written "0": float gives 0.0 for both.
card_of(d) ==
  LET image == IF d.Poster \in empty_values THEN FallbackImage ELSE d.Poster
      rating == IF d.imdbRating \in empty_values THEN <<"0">> ELSE d.imdbRating
      imdb_id == IF d.imdbID \in empty_values THEN NoneStr ELSE d.imdbID
      f == float(rating)
  IN IF f.raised THEN [raised |-> TRUE, html |-> <<>>]
     ELSE [raised |-> FALSE,
           html |-> <<card(imdb_id, d.Title, image,
                           [num |-> f.num, den |-> f.den])>>]

\* A variant that renders None as a card with the fallback image and rating 0.
handle_card_data_fallback(data) ==
  IF data # None THEN card_of(data[1]) ELSE card_of(NotFoundReply)

\* handle_card_data(data): the card of the data, or "" (the empty sequence)
\* for None.
handle_card_data(data) ==
  IF data # None THEN card_of(data[1])
  ELSE [raised |-> FALSE, html |-> <<>>]

RECURSIVE join(_)
\* "".join(parts)
join(parts) == IF parts = <<>> THEN <<>> ELSE Head(parts) \o join(Tail(parts))

\* Lines 212-221: the cards are built, joined and shown; an exception of
\* handle_card_data ends main.
RenderCards ==
  /\ pc = "render"
  /\ LET outs == [k \in 1..Len(result) |-> handle_card_data(result[k])]
     IN IF \E k \in 1..Len(outs) : outs[k].raised
        THEN /\ pc' = "raised"
             /\ error' = "ValueError"
             /\ UNCHANGED cards
        ELSE /\ cards' = join([k \in 1..Len(outs) |-> outs[k].html])
             /\ pc' = "done"
             /\ UNCHANGED error
  /\ UNCHANGED << inputVars, rankVars, fetchVars >>

\* -------------------------------------------------------------- main

\* unique(): the titles the select box of lines 203-206 offers.
unique(df) == {df[i] : i \in 1..Len(df)}

\* main: a loaded catalog and matrix, a title picked from the select box
\* and a count from the slider.
Init ==
  /\ \E inp \in MainInputs :
       /\ new_movies_df = inp.df
       /\ similarity = inp.sim
  /\ movie \in unique(new_movies_df)
  /\ length \in 1..MaxLength
  /\ InitLocals

Next ==
  \/ Recommend
  \/ EnterSession
  \/ Gather
  \/ \E i \in 1..Len(tasks) : TaskRequest(i)
  \/ \E i \in 1..Len(tasks) : TaskResponse(i)
  \/ \E i \in 1..Len(tasks) : TaskJson(i)
  \/ GatherReturn
  \/ ExitSession
  \/ RenderCards

Spec == Init /\ [][Next]_vars

\* ================================================================ claims
Rows == 1..Len(new_movies_df)
Score(r) == similarity[index][r]
Recommended == pc = "getAllMovies"
Positions == 1..Len(tasks)

\* getAllMovies has returned to main.
Returned == pc \in {"render", "done"} \/ (pc = "raised" /\ error = "ValueError")

Failed(i) == tasks[i].st = "done" /\ tasks[i].exc # ""
Answered(i) == tasks[i].st = "done" /\ tasks[i].exc = ""

\* ---- C1
\* C1: whatever the order in which the fetches complete, and whichever of
\* them fail, getAllMovies returns one entry per input title, entry i being
\* the outcome of the fetch issued for title i.
C1_ResultsAlignedWithTitles ==
  Returned =>
    /\ Len(result) = Len(recommendations)
    /\ Len(tasks) = Len(recommendations)
    /\ \A i \in Positions :
         /\ tasks[i].st = "done"
         /\ result[i] = tasks[i].value
         /\ Cardinality({k \in 1..Len(completion) : completion[k] = i}) = 1
         /\ (result[i] # None /\ result[i][1].Response = StrTrue) =>
              result[i][1].Title = recommendations[i]

C1_Witness ==
  /\ Returned
  /\ Len(result) >= 2
  /\ completion[1] # 1
  /\ \E i \in Positions : Failed(i)
  /\ \E i \in Positions : Answered(i)

\* ---- C2
\* C2: an exception raised inside a getMovieData call is caught there and
\* becomes None at that position only: no task ends by raising, gather never
\* hands an exception on, and the returned list holds None exactly at the
\* failing positions and the provider's data at the others.
C2_FailuresIsolated ==
  /\ \A i \in Positions : tasks[i].st # "raised"
  /\ pc # "exit_raising"
  /\ error \notin ExceptionSubclasses
  /\ Returned =>
       \A i \in Positions :
         /\ Failed(i) <=> result[i] = None
         /\ Answered(i) => result[i] = tasks[i].resp[1].json

C2_Witness ==
  /\ Returned
  /\ \E i, j \in Positions :
       /\ Failed(i) /\ result[i] = None
       /\ Answered(j) /\ result[j] # None
       /\ \E k, l \in 1..Len(completion) :
            k < l /\ completion[k] = i /\ completion[l] = j

\* ---- C3
\* C3 as stated: at most K titles, none equal to T or containing T, and the
\* scores of the returned titles strictly descending.
C3_StrictlyDescending ==
  Recommended =>
    /\ Len(recommendations) <= length
    /\ \A k \in 1..Len(recommendations) : ~IsSubstring(movie, recommendations[k])
    /\ \A k \in 1..(Len(rec_rows) - 1) : Score(rec_rows[k]) > Score(rec_rows[k + 1])

\* C3, amended: at most K titles, none equal to T or containing T, and the
\* scores of the returned titles never ascending (equal scores may follow
\* one another).
C3_NeverAscending ==
  Recommended =>
    /\ Len(recommendations) <= length
    /\ Len(rec_rows) = Len(recommendations)
    /\ \A k \in 1..Len(recommendations) :
         /\ recommendations[k] = new_movies_df[rec_rows[k]]
         /\ recommendations[k] # movie
         /\ ~IsSubstring(movie, recommendations[k])
    /\ \A k \in 1..(Len(rec_rows) - 1) : Score(rec_rows[k]) >= Score(rec_rows[k + 1])

C3_Witness ==
  /\ Recommended
  /\ Len(recommendations) = 2
  /\ Score(rec_rows[1]) = Score(rec_rows[2])
  /\ \E r \in Rows : new_movies_df[r] # movie /\ IsSubstring(movie, new_movies_df[r])

\* ---- C4
\* C4: the returned list holds no title twice, also when several rows of the
\* catalog carry the same title.
C4_NoTitleTwice ==
  Recommended =>
    \A j, k \in 1..Len(recommendations) :
      j # k => recommendations[j] # recommendations[k]

\* ---- C5
NotInCatalog == \A r \in Rows : new_movies_df[r] # movie

FailureShape(t) ==
  \/ t.exc # ""
  \/ /\ t.resp # <<>>
     /\ \/ t.resp[1].status # "200"
        \/ t.resp[1].ctype # "json"
        \/ t.resp[1].json = None
        \/ t.resp[1].json[1].Response = StrFalse
        \/ t.resp[1].json[1].Title = NoneStr

Present == {k \in 1..Len(result) : result[k] # None}

\* C7 as stated: every recommended title yields one rendered card.
C7_OneCardPerRecommendation ==
  pc = "done" => Len(cards) = Len(recommendations)

\* C7, amended: a title whose metadata is None yields the empty string and
\* so no card; every other title yields one card, with the fallback image
\* when it has no poster and rating 0 when it has no rating.  The cards
\* rendered are as many as the results that are not None, and none at all
\* when float() raised.
C7_OneCardPerPresentResult ==
  /\ pc = "done" =>
       /\ Len(cards) = Cardinality(Present)
       /\ \A k \in 1..Len(result) :
            LET c == Cardinality({j \in Present : j <= k})
            IN result[k] # None =>
                 /\ cards[c].name = result[k][1].Title
                 /\ result[k][1].Poster \in empty_values =>
                      cards[c].image = FallbackImage
                 /\ result[k][1].imdbRating \in empty_values =>
                      cards[c].rating.num = 0
  /\ pc # "done" => cards = <<>>

C7_Witness ==
  /\ pc = "done"
  /\ \E k \in 1..Len(result) : result[k] = None
  /\ \E k \in 1..Len(result) : result[k] = <<NotFoundReply>>
  /\ Len(cards) < Len(recommendations)
  /\ Len(cards) > 0

\* ---- C8
NonNumeric(s) == s \notin empty_values /\ float(s).raised

\* C8: a reply whose rating is neither numeric nor empty is a failed lookup
\* (None) and raises nowhere; an empty rating becomes 0.0.
C8_NonNumericRatingIsNone ==
  /\ \A i \in Positions :
       (Answered(i) /\ NonNumeric(tasks[i].resp[1].json[1].imdbRating)) =>
         tasks[i].value = None
  /\ error # "ValueError"
  /\ pc = "done" =>
       \A k \in Present :
         result[k][1].imdbRating \in empty_values =>
           cards[Cardinality({j \in Present : j <= k})].rating.num = 0

\* ---- C9
\* C9: one session is opened per batch, before any fetch exists; a fetch
\* touches it only while it is open; it is closed only after every fetch has
\* settled, and it is closed whenever getAllMovies has been left.
C9_SessionScoped ==
  /\ sessions_opened <= 1
  /\ tasks # <<>> => sessions_opened = 1
  /\ ~session_misused
  /\ \A i \in Positions :
       tasks[i].st \in {"requesting", "reading"} => session = "open"
  /\ pc \in {"getAllMovies", "recommend"} => session = "none"
  /\ pc \in {"gather", "awaiting", "exit_returning", "exit_raising"} =>
       session = "open"
  /\ session = "closed" => \A i \in Positions : Settled(tasks[i])
  /\ pc \in {"render", "done", "raised"} => session = "closed"

C9_Witness ==
  /\ session = "closed"
  /\ Len(tasks) >= 2
  /\ \A i \in Positions : Failed(i)

\* ---- C10
\* C10: the entry recommend drops at the head of the sorted row is the query
\* row itself.
C10_HeadIsQueryRow ==
  Recommended => distances[1][1] = index

====
